---------------------------- MODULE Spec2Model ----------------------------
(***************************************************************************)
(* Model of the AI web scraper's chunker (src/scrape.py) and extraction    *)
(* orchestrator (src/parse.py).                                            *)
(*                                                                         *)
(* A Python str is modelled as a sequence of atoms.  In the chunker an     *)
(* atom is one character.  In the orchestrator an atom is an indivisible   *)
(* piece of text: a whitespace character, or a fixed phrase such as        *)
(* "No matching information found".  strip, split, join, find and the      *)
(* slice operator are computed on these sequences as Python computes them  *)
(* on strings.                                                             *)
(***************************************************************************)
EXTENDS Integers, Sequences, FiniteSets, TLC

VARIABLES
    \* ---- split_dom_content (src/scrape.py) ----
    dom_content,        \* the text to split
    max_length,         \* parameter max_length
    overlap,            \* parameter overlap
    chunks,             \* the local list `chunks`
    start,              \* the cursor `start`
    spc,                \* position in split_dom_content
    windows,            \* for every chunk appended: the cursor it was cut at
                        \* and its length before stripping
    split_result,       \* the returned list
    \* ---- parse_with_ai / AIParser.parse_content_with_batch (src/parse.py) ----
    entry,              \* the function the caller called: "batch" or "ai"
    provider,           \* parse_with_ai's provider argument
    has_callback,       \* whether a progress_callback was passed
    dom_chunks,         \* the list of chunks passed in
    parse_description,  \* the query passed in
    parsed_results,     \* the local list `parsed_results`
    batch_results,      \* the local list `batch_results`
    batch_start,        \* the loop variable `batch_start`
    i,                  \* the loop variable `i` of the inner loop
    pc,                 \* position in the call
    events,             \* what the call did to the outside, in order
    outcome,            \* how the call ended
    \* ---- AIParser.parse_with_retry (src/parse.py) ----
    retry_chunk,        \* the chunk passed in
    max_retries,        \* the max_retries argument
    attempt,            \* the loop variable `attempt`
    rpc,                \* position in parse_with_retry
    retry_log,          \* what the call did, in order
    retry_result,       \* the text returned
    \* ---- extract_body_content / clean_body_content (src/scrape.py) ----
    html_content,       \* the argument of extract_body_content
    body_content,       \* the argument of clean_body_content
    soup,               \* the parsed tree, as a sequence of nodes
    clean_text,         \* the local `text` of clean_body_content
    clean_lines,        \* the local list `lines` of clean_body_content
    npc,                \* position in the two functions
    norm_outcome,       \* how clean_body_content ended
    \* ---- scrape_website (src/scrape.py) ----
    url,                \* the url argument
    use_selenium,       \* the use_selenium argument
    fetch_log,          \* the fetches attempted, in order
    fpc,                \* position in scrape_website
    fetch_outcome,      \* how the call ended
    \* ---- parse_with_langchain_memory (src/parse.py) ----
    all_results         \* the local list `all_results`

svars == <<dom_content, max_length, overlap, chunks, start, spc, windows,
           split_result>>

pvars == <<entry, provider, has_callback, dom_chunks, parse_description,
           parsed_results, batch_results, batch_start, i, pc, events, outcome>>

rvars == <<retry_chunk, max_retries, attempt, rpc, retry_log, retry_result>>

nvars == <<html_content, body_content, soup, clean_text, clean_lines, npc,
           norm_outcome>>

fvars == <<url, use_selenium, fetch_log, fpc, fetch_outcome>>

mvars == <<all_results>>

\* the variables of the functions added to the first three
xvars == <<nvars, fvars, mvars>>

vars == <<svars, pvars, rvars, xvars>>

---------------------------------------------------------------------------
(* Bounds of the model. *)

\* longest text over the full alphabet
MaxTextLen == 4
\* longest text over the two-letter alphabet {"a", "\n"}
MaxLongLen == 8
\* largest max_length tried
MaxMaxLength == 7
\* largest overlap tried
MaxOverlap == 7
\* iterations of the chunker's loop that are followed
MaxIter == 10
\* the 12,000-character scenario texts carry a break marker at offsets
\* ScenarioBreakFrom .. ScenarioBreakFrom + MaxScenarioShift around 70% of
\* the window
MaxScenarioShift == 2
\* longest chunk list passed to the orchestrator
MaxChunks == 4
\* chunks of the longer lists, and how many of them are not blank
MaxLongChunks == 7
MaxLongCalls == 2
\* largest max_retries passed to parse_with_retry
MaxRetries == 3
\* longest plain text passed to the normalizer, and longest one with
\* ampersands and character references
MaxCleanLen == 5
MaxRefLen == 3

---------------------------------------------------------------------------
(* Python strings as sequences of atoms. *)

\* the whitespace atoms str.strip() removes
Whitespace == {" ", "\n"}

\* s.lstrip(): the text from its first atom that is not whitespace on
LStrip(s) ==
    IF \A p \in 1..Len(s) : s[p] \in Whitespace THEN <<>>
    ELSE SubSeq(s, CHOOSE p \in 1..Len(s) :
                       s[p] \notin Whitespace /\ \A q \in 1..(p - 1) : s[q] \in Whitespace,
                Len(s))

\* s.rstrip(): the text up to its last atom that is not whitespace
RStrip(s) ==
    IF \A p \in 1..Len(s) : s[p] \in Whitespace THEN <<>>
    ELSE SubSeq(s, 1, CHOOSE p \in 1..Len(s) :
                          s[p] \notin Whitespace /\ \A q \in (p + 1)..Len(s) : s[q] \in Whitespace)

\* str.strip()
Strip(s) == RStrip(LStrip(s))

\* a slice bound as Python normalises it for a string of length n
PyIndex(k, n) ==
    IF k < 0 THEN (IF k + n < 0 THEN 0 ELSE k + n)
    ELSE IF k > n THEN n ELSE k

\* s[a:b]
Slice(s, a, b) ==
    LET lo == PyIndex(a, Len(s))
        hi == PyIndex(b, Len(s))
    IN  IF lo >= hi THEN <<>> ELSE SubSeq(s, lo + 1, hi)

\* s[a:]
SliceFrom(s, a) == Slice(s, a, Len(s))

\* s.rfind(m): the highest 0-based position where m occurs in s, or -1
RFind(s, m) ==
    LET hits == {p \in 0..(Len(s) - Len(m)) : SubSeq(s, p + 1, p + Len(m)) = m}
    IN  IF hits = {} THEN -1 ELSE CHOOSE p \in hits : \A q \in hits : q <= p

---------------------------------------------------------------------------
(* split_dom_content *)

\* the normalizer's variables while it is not called
NormIdle ==
    /\ html_content = [parses |-> TRUE, nodes |-> <<>>]
    /\ body_content = [parses |-> TRUE, nodes |-> <<>>]
    /\ soup = <<>>
    /\ clean_text = <<>>
    /\ clean_lines = <<>>
    /\ npc = "idle"
    /\ norm_outcome = [kind |-> "none", value |-> <<>>]

\* scrape_website's variables while it is not called
FetchIdle ==
    /\ url = <<>>
    /\ use_selenium = FALSE
    /\ fetch_log = <<>>
    /\ fpc = "idle"
    /\ fetch_outcome = [kind |-> "none", exc |-> "none", value |-> <<>>]

\* parse_with_langchain_memory's local while it is not called
MemIdle == all_results = <<>>

OthersIdle == NormIdle /\ FetchIdle /\ MemIdle

\* parse_with_retry's variables while it is not called
RetryIdle ==
    /\ retry_chunk = <<>>
    /\ max_retries = 0
    /\ attempt = 0
    /\ rpc = "idle"
    /\ retry_log = <<>>
    /\ retry_result = <<>>

\* the orchestrator's variables while only the chunker runs
ParseIdle ==
    /\ entry = "none"
    /\ provider = "none"
    /\ has_callback = FALSE
    /\ dom_chunks = <<>>
    /\ parse_description = <<>>
    /\ parsed_results = <<>>
    /\ batch_results = <<>>
    /\ batch_start = 0
    /\ i = 0
    /\ pc = "idle"
    /\ events = <<>>
    /\ outcome = [kind |-> "none", exc |-> "none", value |-> <<>>]

\* the break markers, in the order the loop tries them
BreakChars == << <<"\n", "\n">>, <<".", " ">>, <<".", "\n">>, <<"\n">> >>

\* a test that also takes a break at exactly 70% of max_length
FarEnoughOrEqual(break_pos, maxlen) == 10 * break_pos >= 7 * maxlen

\* break_pos > max_length * 0.7; the product is a float, and the integer
\* test below agrees with it for every max_length of this model (1..39 and
\* 6000: 6000 * 0.7 is 4200.0)
FarEnough(break_pos, maxlen) == 10 * break_pos > 7 * maxlen

\* the for loop over the break markers: the chunk cut out of the window
\* text[st : st + maxlen], before it is stripped
RECURSIVE BreakFrom(_, _, _, _)
BreakFrom(text, st, maxlen, k) ==
    IF k > Len(BreakChars) THEN Slice(text, st, st + maxlen)
    ELSE LET break_pos == RFind(Slice(text, st, st + maxlen), BreakChars[k])
         IN  IF FarEnough(break_pos, maxlen)
             THEN Slice(text, st, st + break_pos + Len(BreakChars[k]))
             ELSE BreakFrom(text, st, maxlen, k + 1)

CutChunk(text, st, maxlen) == BreakFrom(text, st, maxlen, 1)

\* a chunker whose cursor moves on by the whole chunk, without the overlap
AdvanceNoOverlap(chunk, ov) == Len(chunk)

\* the step added to the cursor after a chunk that is not the last
Advance(chunk, ov) == Len(chunk) - ov

\* the list comprehension of the return statement
RECURSIVE NonBlank(_)
NonBlank(cs) ==
    IF cs = <<>> THEN <<>>
    ELSE IF Strip(Head(cs)) # <<>> THEN <<Head(cs)>> \o NonBlank(Tail(cs))
         ELSE NonBlank(Tail(cs))

\* a variant of the early returns that applies the return statement's filter
EarlyReturnFiltered(text) == NonBlank(<<text>>)

\* what the two early returns give: [] for an empty text, [text] for a short one
EarlyReturn(text) == IF text = <<>> THEN <<>> ELSE <<text>>

Alphabet == {"a", ".", " ", "\n"}
LongAlphabet == {"a", "\n"}

SeqsOver(S, lo, hi) == UNION {[1..n -> S] : n \in lo..hi}

Texts == SeqsOver(Alphabet, 0, MaxTextLen)
           \cup SeqsOver(LongAlphabet, MaxTextLen + 1, MaxLongLen)

\* the defaults of split_dom_content's parameters
DefaultMaxLength == 6000
DefaultOverlap == 200

\* a text of n characters: letters, but for the atoms of marks at their
\* (1-based) positions
TextWith(n, marks) == [k \in 1..n |-> IF k \in DOMAIN marks THEN marks[k] ELSE "a"]

\* an atom at each position of a set
AtAll(positions, atom) == [k \in positions |-> atom]

\* the last offset in a window of 6000 that is not far enough for a break
ScenarioBreakFrom == (7 * DefaultMaxLength) \div 10

\* texts of twice the default max_length: without any break marker, with a
\* newline around 70% of the first window or at its very end, with a
\* sentence end that outranks a later newline, with breaks in both windows,
\* and with a blank tail
ScenarioTexts ==
    LET n == 2 * DefaultMaxLength
    IN  {TextWith(n, <<>>)}
        \cup {TextWith(n, AtAll({ScenarioBreakFrom + d + 1}, "\n")) :
                 d \in 0..MaxScenarioShift}
        \cup {TextWith(n, AtAll({DefaultMaxLength}, "\n")),
              TextWith(n, AtAll({5001}, ".") @@ AtAll({5002}, " ")
                            @@ AtAll({5501}, "\n")),
              TextWith(n, AtAll({4501, 4502, 9001, 9002}, "\n")),
              TextWith(n, AtAll((n - 2 * DefaultOverlap + 1)..n, " "))}

SplitInit ==
    /\ \/ /\ dom_content \in Texts
          /\ max_length \in 1..MaxMaxLength
          /\ overlap \in 0..MaxOverlap
       \/ /\ dom_content \in ScenarioTexts
          /\ max_length = DefaultMaxLength
          /\ overlap = DefaultOverlap
    /\ chunks = <<>>
    /\ start = 0
    /\ spc = "entry"
    /\ windows = <<>>
    /\ split_result = <<>>
    /\ ParseIdle
    /\ RetryIdle
    /\ OthersIdle

\* lines 270-277: the two early returns, else the loop is entered
SplitEntry ==
    /\ spc = "entry"
    /\ IF dom_content = <<>> \/ Len(dom_content) <= max_length
       THEN /\ split_result' = EarlyReturn(dom_content)
            /\ spc' = "done"
       ELSE /\ spc' = "loop"
            /\ UNCHANGED split_result
    /\ UNCHANGED <<dom_content, max_length, overlap, chunks, start, windows>>
    /\ UNCHANGED <<pvars, rvars>>
    /\ UNCHANGED xvars

\* lines 279-298: one iteration of the while loop
SplitIterate ==
    /\ spc = "loop"
    /\ Len(chunks) < MaxIter
    /\ IF start < Len(dom_content)
       THEN IF start + max_length >= Len(dom_content)
            THEN \* last chunk, not stripped
                 /\ chunks' = Append(chunks, SliceFrom(dom_content, start))
                 /\ windows' = Append(windows,
                        [at |-> start, len |-> Len(SliceFrom(dom_content, start))])
                 /\ spc' = "return"
                 /\ UNCHANGED start
            ELSE LET chunk == CutChunk(dom_content, start, max_length)
                 IN  /\ chunks' = Append(chunks, Strip(chunk))
                     /\ windows' = Append(windows, [at |-> start, len |-> Len(chunk)])
                     /\ start' = start + Advance(chunk, overlap)
                     /\ UNCHANGED spc
       ELSE /\ spc' = "return"
            /\ UNCHANGED <<chunks, start, windows>>
    /\ UNCHANGED <<dom_content, max_length, overlap, split_result>>
    /\ UNCHANGED <<pvars, rvars>>
    /\ UNCHANGED xvars

\* line 300
SplitReturn ==
    /\ spc = "return"
    /\ split_result' = NonBlank(chunks)
    /\ spc' = "done"
    /\ UNCHANGED <<dom_content, max_length, overlap, chunks, start, windows>>
    /\ UNCHANGED <<pvars, rvars>>
    /\ UNCHANGED xvars

SplitNext == SplitEntry \/ SplitIterate \/ SplitReturn

SpecSplit == SplitInit /\ [][SplitNext]_vars

---------------------------------------------------------------------------
(* More of Python's str, used by the orchestrator. *)

\* whether m occurs in s  (m in s)
Contains(s, m) ==
    \E p \in 0..(Len(s) - Len(m)) : SubSeq(s, p + 1, p + Len(m)) = m

\* s.split('\n')
RECURSIVE SplitLines(_)
SplitLines(s) ==
    LET nl == {p \in 1..Len(s) : s[p] = "\n"}
    IN  IF nl = {} THEN <<s>>
        ELSE LET p == CHOOSE q \in nl : \A r \in nl : q <= r
             IN  <<SubSeq(s, 1, p - 1)>> \o SplitLines(SubSeq(s, p + 1, Len(s)))

\* sep.join(parts)
RECURSIVE JoinWith(_, _)
JoinWith(parts, sep) ==
    IF parts = <<>> THEN <<>>
    ELSE IF Len(parts) = 1 THEN parts[1]
    ELSE parts[1] \o sep \o JoinWith(Tail(parts), sep)

InSeq(x, xs) == \E k \in 1..Len(xs) : xs[k] = x

---------------------------------------------------------------------------
(* AIParser.parse_content_with_batch and parse_with_ai *)

\* the string a chunk's result is compared with (parse.py line 116), which is
\* also the string main.py compares the final answer with (main.py line 158)
NoMatchFound == <<"No matching information found">>

\* the string returned when nothing was collected (line 133)
NoMatchInContent == <<"No matching information found", " in the provided content.">>

\* f"Error processing chunk: {str(e)}"
ErrorProcessingChunk(msg) == <<"Error", " processing chunk", ": ">> \o msg

\* the token whose presence drops a line
ErrorToken == <<"Error">>

BatchSize == 3

\* the fixed delay between two batches, in seconds
BatchDelay == 1

\* the providers AIParser.__init__ accepts
SupportedProviders == {"openai", "groq"}

\* the methods class AIParser defines.  The statements at lines 199-210 follow
\* the return of parse_with_retry inside its body: no def introduces them, so
\* the class has no attribute _clean_and_deduplicate.
AIParserMethods ==
    {"__init__", "_create_extraction_chain", "parse_chunk",
     "parse_content_with_batch", "create_advanced_extraction_chain",
     "parse_with_retry"}

\* lines 200-210, the statements written for _clean_and_deduplicate
RECURSIVE CleanLoop(_, _)
CleanLoop(lines, cleaned_lines) ==
    IF lines = <<>> THEN cleaned_lines
    ELSE LET line == Strip(Head(lines))
         IN  IF line # <<>> /\ ~InSeq(line, cleaned_lines) /\ ~Contains(line, ErrorToken)
             THEN CleanLoop(Tail(lines), Append(cleaned_lines, line))
             ELSE CleanLoop(Tail(lines), cleaned_lines)

CleanAndDeduplicate(content) ==
    JoinWith(CleanLoop(SplitLines(content), <<>>), <<"\n">>)

\* what the Extraction Client can do with one call: reply with a text, or fail
ReplyTexts ==
    { <<"A">>, <<"B">>, <<" ", "A", "\n">>, <<"A", "\n", "B">>, NoMatchFound, <<" ">> }

ClientOutcomes ==
    {[ok |-> TRUE, text |-> t] : t \in ReplyTexts}
        \cup {[ok |-> FALSE, text |-> <<"boom">>]}

\* a test that lets a whitespace-only chunk through
IsBlankEmptyOnly(chunk) == chunk = <<>>

\* `not chunk.strip()`, the test of lines 72 and 111
IsBlank(chunk) == Strip(chunk) = <<>>

\* AIParser.parse_chunk, given what the chain does when invoked
ParseChunk(chunk, r) ==
    IF IsBlank(chunk) THEN <<>>
    ELSE IF r.ok THEN Strip(r.text)
    ELSE ErrorProcessingChunk(r.text)

\* line 116: whether a chunk's result is appended to batch_results
Collected(result) == result # <<>> /\ result # NoMatchFound

\* a call that returns v
Returned(v) == [kind |-> "returned", exc |-> "none", value |-> v]

\* a call that ends with exception exc; parse_with_ai catches every exception
\* and raises a plain Exception in its place (lines 243-244)
Raised(exc) ==
    [kind |-> "raised", exc |-> IF entry = "ai" THEN "Exception" ELSE exc,
     value |-> <<>>]

\* lines 128-133
CombineResults(results) ==
    IF results # <<>>
    THEN IF "_clean_and_deduplicate" \in AIParserMethods
         THEN Returned(CleanAndDeduplicate(JoinWith(results, <<"\n", "\n">>)))
         ELSE Raised("AttributeError")
    ELSE Returned(NoMatchInContent)

ChunkTexts == { <<" ", "\n">>, <<"x">> }

\* the chunk lists of a call: every list of up to MaxChunks chunks, and the
\* lists of up to MaxLongChunks chunks with at most MaxLongCalls chunks that
\* are not blank
ChunkLists ==
    SeqsOver(ChunkTexts, 0, MaxChunks)
        \cup {cs \in SeqsOver(ChunkTexts, MaxChunks + 1, MaxLongChunks) :
                 Cardinality({k \in 1..Len(cs) : cs[k] = <<"x">>}) <= MaxLongCalls}

\* the chunker's variables while only the orchestrator runs
SplitIdle ==
    /\ dom_content = <<>>
    /\ max_length = 1
    /\ overlap = 0
    /\ chunks = <<>>
    /\ start = 0
    /\ spc = "idle"
    /\ windows = <<>>
    /\ split_result = <<>>

Init ==
    /\ SplitIdle
    /\ RetryIdle
    /\ OthersIdle
    /\ entry \in {"batch", "ai"}
    /\ provider \in (IF entry = "ai" THEN {"groq", "other"} ELSE {"groq"})
    /\ has_callback \in BOOLEAN
    /\ dom_chunks \in ChunkLists
    /\ parse_description \in {<<>>, <<"q">>}
    /\ parsed_results = <<>>
    /\ batch_results = <<>>
    /\ batch_start = 0
    /\ i = 0
    /\ pc = IF entry = "ai" THEN "construct" ELSE "validate"
    /\ events = <<>>
    /\ outcome = [kind |-> "none", exc |-> "none", value |-> <<>>]

total_chunks == Len(dom_chunks)

batch_end == IF batch_start + BatchSize < total_chunks
             THEN batch_start + BatchSize ELSE total_chunks

\* a check that lets an empty chunk list through
InvalidInputQueryOnly == parse_description = <<>>

\* lines 89-92: the arguments parse_content_with_batch refuses
InvalidInput == dom_chunks = <<>> \/ parse_description = <<>>

\* a callback told the 0-based position of the chunk
ProgressZeroBased(chunk_index, total) ==
    [kind |-> "progress", idx |-> chunk_index - 1, arg |-> total]

\* line 109: progress_callback(chunk_index, total_chunks)
Progress(chunk_index, total) ==
    [kind |-> "progress", idx |-> chunk_index, arg |-> total]

\* a delay after every batch, the last one included
SleepsAfterEveryBatch == TRUE

\* line 125: whether the delay follows the batch that just ended
SleepsAfterBatch == batch_end < total_chunks

\* a batch's results put in front of the earlier ones
ExtendInFront(results, batch) == batch \o results

\* line 122: parsed_results.extend(batch_results)
ExtendResults(results, batch) == results \o batch

\* parse_with_ai, lines 235-240: AIParser(provider, model) raises ValueError
\* for a provider it does not know (lines 19-34)
Construct ==
    /\ pc = "construct"
    /\ IF provider \in SupportedProviders
       THEN /\ pc' = "validate"
            /\ UNCHANGED outcome
       ELSE /\ pc' = "done"
            /\ outcome' = Raised("ValueError")
    /\ UNCHANGED <<entry, provider, has_callback, dom_chunks, parse_description,
                   parsed_results, batch_results, batch_start, i, events>>
    /\ UNCHANGED <<svars, rvars>>
    /\ UNCHANGED xvars

\* lines 89-95
Validate ==
    /\ pc = "validate"
    /\ IF InvalidInput
       THEN /\ pc' = "done"
            /\ outcome' = Raised("ValueError")
       ELSE /\ pc' = "batch"
            /\ UNCHANGED outcome
    /\ UNCHANGED <<entry, provider, has_callback, dom_chunks, parse_description,
                   parsed_results, batch_results, batch_start, i, events>>
    /\ UNCHANGED <<svars, rvars>>
    /\ UNCHANGED xvars

\* lines 99-104: the next batch starts, or the outer loop is over and
\* lines 128-133 end the call
BatchBegin ==
    /\ pc = "batch"
    /\ IF batch_start < total_chunks
       THEN /\ batch_results' = <<>>
            /\ i' = 0
            /\ pc' = "chunk"
            /\ UNCHANGED outcome
       ELSE /\ outcome' = CombineResults(parsed_results)
            /\ pc' = "done"
            /\ UNCHANGED <<batch_results, i>>
    /\ UNCHANGED <<entry, provider, has_callback, dom_chunks, parse_description,
                   parsed_results, batch_start, events>>
    /\ UNCHANGED <<svars, rvars>>
    /\ UNCHANGED xvars

\* lines 105-112: the progress callback, then a blank chunk is skipped;
\* after the batch's last chunk, lines 122-126
ChunkBegin ==
    /\ pc = "chunk"
    /\ IF batch_start + i < batch_end
       THEN LET chunk_index == batch_start + i + 1
                progress == IF has_callback
                            THEN <<Progress(chunk_index, total_chunks)>>
                            ELSE <<>>
            IN  /\ events' = events \o progress
                /\ IF IsBlank(dom_chunks[chunk_index])
                   THEN i' = i + 1 /\ UNCHANGED pc
                   ELSE pc' = "call" /\ UNCHANGED i
                /\ UNCHANGED <<parsed_results, batch_start>>
       ELSE /\ parsed_results' = ExtendResults(parsed_results, batch_results)
            /\ events' = IF SleepsAfterBatch
                         THEN Append(events, [kind |-> "sleep", idx |-> batch_end,
                                              arg |-> BatchDelay])
                         ELSE events
            /\ batch_start' = batch_start + BatchSize
            /\ pc' = "batch"
            /\ UNCHANGED i
    /\ UNCHANGED <<entry, provider, has_callback, dom_chunks, parse_description,
                   batch_results, outcome>>
    /\ UNCHANGED <<svars, rvars>>
    /\ UNCHANGED xvars

\* lines 114-117 with parse_chunk (lines 70-84): the Extraction Client is
\* invoked for the chunk unless parse_chunk finds it blank; parse_chunk turns
\* a failure into a text, so the handler of lines 119-120 never runs
Call ==
    /\ pc = "call"
    /\ \E r \in ClientOutcomes :
         LET chunk_index == batch_start + i + 1
             result == ParseChunk(dom_chunks[chunk_index], r)
         IN  /\ events' = IF IsBlank(dom_chunks[chunk_index])
                          THEN events
                          ELSE Append(events, [kind |-> "call", idx |-> chunk_index,
                                               arg |-> r])
             /\ batch_results' = IF Collected(result)
                                 THEN Append(batch_results, result)
                                 ELSE batch_results
    /\ i' = i + 1
    /\ pc' = "chunk"
    /\ UNCHANGED <<entry, provider, has_callback, dom_chunks, parse_description,
                   parsed_results, batch_start, outcome>>
    /\ UNCHANGED <<svars, rvars>>
    /\ UNCHANGED xvars

Next == Construct \/ Validate \/ BatchBegin \/ ChunkBegin \/ Call

Spec == Init /\ [][Next]_vars

\* either function is called
SpecAll == (SplitInit \/ Init) /\ [][SplitNext \/ Next]_vars

---------------------------------------------------------------------------
(* AIParser.parse_with_retry (src/parse.py, lines 185-198). *)

\* an argument that is not a string: parse_chunk calls chunk.strip() before
\* its try block (line 72), so it raises AttributeError for such a chunk
NotAString == <<"<None>">>
NoStripMessage == <<"'NoneType' object has no attribute 'strip'">>

RetryChunks == ChunkTexts \cup {NotAString}

\* whether parse_chunk raises, which it does for nothing but line 72
ParseChunkRaises(chunk) == chunk = NotAString

\* the text searched in a result, line 190
ErrorProcessingMarker == <<"Error", " processing chunk">>

\* what the Extraction Client can do with one call of a retry: as before,
\* or reply with a text that quotes the marker
RetryOutcomes ==
    ClientOutcomes \cup {[ok |-> TRUE, text |-> <<"A", ": ">> \o ErrorProcessingMarker]}

\* a test that takes every non-empty text as a result
UsableResultAny(result) == result # <<>>

\* line 190: the result is returned
UsableResult(result) == result # <<>> /\ ~Contains(result, ErrorProcessingMarker)

\* line 195
FailedAfter(n, msg) == <<"Failed after ", ToString(n), " attempts", ": ">> \o msg

\* line 198
FailedMultiple == <<"Failed to process chunk after multiple attempts">>

\* line 196: 2 ** attempt
Backoff(k) == 2 ^ k

RetryInit ==
    /\ SplitIdle
    /\ ParseIdle
    /\ OthersIdle
    /\ retry_chunk \in RetryChunks
    /\ max_retries \in 0..MaxRetries
    /\ attempt = 0
    /\ rpc = "loop"
    /\ retry_log = <<>>
    /\ retry_result = <<>>

\* lines 187-196: one iteration of the loop
RetryAttempt ==
    /\ rpc = "loop"
    /\ attempt < max_retries
    /\ IF ParseChunkRaises(retry_chunk)
       THEN IF attempt = max_retries - 1
            THEN /\ retry_result' = FailedAfter(max_retries, NoStripMessage)
                 /\ retry_log' = Append(retry_log,
                        [kind |-> "raise", idx |-> attempt, arg |-> 0])
                 /\ rpc' = "done"
                 /\ UNCHANGED attempt
            ELSE /\ retry_log' = retry_log \o
                        << [kind |-> "raise", idx |-> attempt, arg |-> 0],
                           [kind |-> "sleep", idx |-> attempt, arg |-> Backoff(attempt)] >>
                 /\ attempt' = attempt + 1
                 /\ UNCHANGED <<rpc, retry_result>>
       ELSE \E r \in (IF IsBlank(retry_chunk) THEN {CHOOSE o \in RetryOutcomes : TRUE}
                      ELSE RetryOutcomes) :
              LET result == ParseChunk(retry_chunk, r)
              IN  /\ retry_log' = Append(retry_log,
                        IF IsBlank(retry_chunk)
                        THEN [kind |-> "skip", idx |-> attempt, arg |-> 0]
                        ELSE [kind |-> "call", idx |-> attempt, arg |-> r])
                  /\ IF UsableResult(result)
                     THEN /\ retry_result' = result
                          /\ rpc' = "done"
                          /\ UNCHANGED attempt
                     ELSE /\ attempt' = attempt + 1
                          /\ UNCHANGED <<rpc, retry_result>>
    /\ UNCHANGED <<retry_chunk, max_retries>>
    /\ UNCHANGED <<svars, pvars>>
    /\ UNCHANGED xvars

\* line 198: the loop is over
RetryExhausted ==
    /\ rpc = "loop"
    /\ attempt >= max_retries
    /\ retry_result' = FailedMultiple
    /\ rpc' = "done"
    /\ UNCHANGED <<retry_chunk, max_retries, attempt, retry_log>>
    /\ UNCHANGED <<svars, pvars>>
    /\ UNCHANGED xvars

RetryNext == RetryAttempt \/ RetryExhausted

SpecRetry == RetryInit /\ [][RetryNext]_vars

---------------------------------------------------------------------------
(* Properties of parse_content_with_batch and parse_with_ai, checked under *)
(* Spec.                                                                   *)

Done == pc = "done"

\* a call the caller made properly: chunks, a query, a known provider
WellFormed ==
    /\ dom_chunks # <<>>
    /\ parse_description # <<>>
    /\ provider \in SupportedProviders

\* the positions in events of the Extraction Client calls
CallEvents == {k \in 1..Len(events) : events[k].kind = "call"}

\* the chunk indexes (1-based) whose text is not blank
NonBlankChunks == {c \in 1..Len(dom_chunks) : Strip(dom_chunks[c]) # <<>>}

\* what call k produced for its chunk
ResultOf(k) == ParseChunk(dom_chunks[events[k].idx], events[k].arg)

\* call k succeeded and produced text other than the no-match reply
Usable(k) == events[k].arg.ok /\ Collected(ResultOf(k))

\* the lines of a text, each trimmed, the blank ones left out
RECURSIVE TrimLines(_)
TrimLines(lines) ==
    IF lines = <<>> THEN <<>>
    ELSE IF Strip(Head(lines)) = <<>> THEN TrimLines(Tail(lines))
    ELSE <<Strip(Head(lines))>> \o TrimLines(Tail(lines))

LinesOf(text) == TrimLines(SplitLines(text))

AnswerLines == SplitLines(outcome.value)

\* how often line occurs in lines
Occurrences(line, lines) == Cardinality({k \in 1..Len(lines) : lines[k] = line})

\* C1: when the call for some chunk fails and another succeeds with usable
\* text, the run is not aborted: every non-blank chunk is still sent to the
\* Extraction Client, the call returns, and the answer holds every line
\* produced by a call that succeeded with usable text.
C1_AbsorbsFailingChunk ==
    /\ Done
    /\ WellFormed
    /\ \E k \in CallEvents : ~events[k].arg.ok
    /\ \E k \in CallEvents : Usable(k)
    => /\ {events[k].idx : k \in CallEvents} = NonBlankChunks
       /\ outcome.kind = "returned"
       /\ \A k \in CallEvents :
            Usable(k) =>
                \A n \in 1..Len(LinesOf(ResultOf(k))) :
                    InSeq(LinesOf(ResultOf(k))[n], AnswerLines)

\* C2: with a non-empty chunk list and a non-empty query the call returns a
\* string whatever the Extraction Client calls did; it raises exactly when
\* the chunk list or the query is empty.
C2_RaisesOnlyOnMalformedInput ==
    Done /\ provider \in SupportedProviders
        => IF dom_chunks = <<>> \/ parse_description = <<>>
           THEN outcome.kind = "raised"
           ELSE outcome.kind = "returned"

\* C3: the call never returns the empty string: when nothing is left of the
\* collected results after the line-wise cleaning, it returns the fixed
\* no-match sentence.
C3_NeverEmptyAnswer ==
    Done /\ WellFormed
        => /\ outcome.kind = "returned" => outcome.value # <<>>
           /\ CleanAndDeduplicate(JoinWith(parsed_results, <<"\n", "\n">>)) = <<>>
                => /\ outcome.kind = "returned"
                   /\ outcome.value \in {NoMatchFound, NoMatchInContent}

\* C4: when every Extraction Client reply is the no-match reply, the answer
\* is that same string, the one line 116 of parse.py and line 158 of main.py
\* compare with.
C4_AllNoMatchGivesSentinel ==
    /\ Done
    /\ WellFormed
    /\ CallEvents # {}
    /\ \A k \in CallEvents : events[k].arg.ok /\ Strip(events[k].arg.text) = NoMatchFound
    => outcome = Returned(NoMatchFound)

\* the lines of all usable results in chunk order, error lines left out
UsableLines ==
    LET all == LinesOf(JoinWith(parsed_results, <<"\n", "\n">>))
    IN  SelectSeq(all, LAMBDA l : ~Contains(l, ErrorToken))

\* the first occurrence of every line, in order
FirstOccurrences(lines) ==
    LET keep == {k \in 1..Len(lines) : \A j \in 1..(k - 1) : lines[j] # lines[k]}
        RECURSIVE Pick(_)
        Pick(k) == IF k > Len(lines) THEN <<>>
                   ELSE IF k \in keep THEN <<lines[k]>> \o Pick(k + 1)
                   ELSE Pick(k + 1)
    IN  Pick(1)

\* C5: when two chunks produce an identical line, the answer holds that line
\* exactly once, where it first occurred, the order of the other lines kept.
C5_DuplicateLineOnce ==
    /\ Done
    /\ WellFormed
    /\ \E l \in {UsableLines[n] : n \in 1..Len(UsableLines)} :
          Occurrences(l, UsableLines) >= 2
    => /\ outcome.kind = "returned"
       /\ \A n \in 1..Len(UsableLines) : Occurrences(UsableLines[n], AnswerLines) = 1
       /\ AnswerLines = FirstOccurrences(UsableLines)

\* C6: no line of the answer holds the error token, and a chunk answered
\* with the no-match reply adds no line when other chunks produced content.
C6_NoErrorNoNoMatchLines ==
    /\ Done
    /\ WellFormed
    /\ \E k \in CallEvents : events[k].arg.ok /\ ResultOf(k) = NoMatchFound
    /\ \E k \in CallEvents : Usable(k)
    => /\ outcome.kind = "returned"
       /\ \A n \in 1..Len(AnswerLines) :
            /\ ~Contains(AnswerLines[n], ErrorToken)
            /\ AnswerLines[n] # NoMatchFound
       /\ AnswerLines = FirstOccurrences(UsableLines)

---------------------------------------------------------------------------
(* Properties of split_dom_content, checked under SpecSplit. *)

\* the parameters the specification calls valid
ValidParams == max_length >= 1 /\ overlap >= 0 /\ overlap < max_length

\* an iteration that appended a chunk other than the last one
NonFinalIteration == spc = "loop" /\ spc' = "loop"

\* C7: for valid parameters the loop terminates and a non-empty text gives a
\* non-empty list.  Every iteration is a function of the cursor alone, so an
\* iteration that leaves the cursor where it was repeats for ever:
\* termination requires that no non-final iteration ends with the cursor
\* unchanged; and a call that returns for a non-empty text returns a
\* non-empty list.
C7_TerminatesNonEmpty ==
    [][ValidParams =>
          /\ (NonFinalIteration => start' # start)
          /\ (spc' = "done" /\ dom_content # <<>> => split_result' # <<>>)]_vars

\* C8: in every iteration that does not emit the last chunk the cursor
\* strictly increases, whatever the parameters (overlap >= max_length included).
C8_CursorAdvances == [][NonFinalIteration => start' > start]_vars

\* the number of leading atoms of cur that repeat the end of prev, at most ov
SharedLen(prev, cur, ov) ==
    LET cand == {k \in 0..ov : /\ k <= Len(prev)
                               /\ k <= Len(cur)
                               /\ SubSeq(prev, Len(prev) - k + 1, Len(prev))
                                    = SubSeq(cur, 1, k)}
    IN  CHOOSE k \in cand : \A j \in cand : j <= k

\* the chunks concatenated in order, each without what it shares with the
\* chunk before it
RECURSIVE Rebuild(_, _, _)
Rebuild(cs, k, ov) ==
    IF k > Len(cs) THEN <<>>
    ELSE IF k = 1 THEN cs[1] \o Rebuild(cs, 2, ov)
    ELSE LET n == SharedLen(cs[k - 1], cs[k], ov)
         IN  SubSeq(cs[k], n + 1, Len(cs[k])) \o Rebuild(cs, k + 1, ov)

\* C9: for valid parameters, the returned chunks with their overlaps removed
\* concatenate to the input text exactly.
C9_RoundTrip ==
    spc = "done" /\ ValidParams => Rebuild(split_result, 1, overlap) = dom_content

\* C10 as stated: every text no longer than max_length is returned as the
\* one-element list holding it.
C10_ShortTextSingleChunk ==
    spc = "done" /\ Len(dom_content) <= max_length
        => split_result = <<dom_content>>

\* C10 as amended: a non-empty text no longer than max_length is returned
\* whole and unchanged as the only chunk, and the empty text gives the
\* empty list.
C10_ShortTextSingleChunkUnlessEmpty ==
    spc = "done" /\ Len(dom_content) <= max_length
        => /\ dom_content # <<>> => split_result = <<dom_content>>
           /\ dom_content = <<>> => split_result = <<>>

\* C10 witness: a text of exactly max_length characters that starts with a
\* blank has gone through the call and come back as the single chunk.
C10_Witness ==
    /\ spc = "done"
    /\ Len(dom_content) = max_length
    /\ dom_content[1] = " "
    /\ split_result = <<dom_content>>

(***************************************************************************)
(* Claims about split_dom_content with its default parameters.             *)
(***************************************************************************)

\* the scenario: 12,000 characters cut with max_length 6000 and overlap 200
Scenario ==
    /\ Len(dom_content) = 2 * DefaultMaxLength
    /\ max_length = DefaultMaxLength
    /\ overlap = DefaultOverlap

\* the position where the k-th window was cut
CutAt(k) == windows[k].at + windows[k].len

\* the windows whose chunk is blank after trimming
BlankWindows == {k \in 1..Len(chunks) : Strip(chunks[k]) = <<>>}

\* C11 as stated: a text of 12,000 characters cut with max_length 6000 and
\* overlap 200 gives exactly 2 chunks, the second starting within 200
\* characters before the position where the first chunk was cut.
C11_TwoChunks ==
    (spc = "done" /\ Scenario) =>
        /\ Len(split_result) = 2
        /\ Len(windows) >= 2
        /\ windows[2].at \in (CutAt(1) - DefaultOverlap)..CutAt(1)

\* C11 as the code behaves: the text is cut into exactly three windows, the
\* second starting exactly 200 characters before the position where the first
\* was cut and the third being the rest of the text; the chunks returned are
\* the windows that are not blank after trimming, so 3 chunks unless a window
\* is blank.
C11_ThreeWindows ==
    (spc = "done" /\ Scenario) =>
        /\ Len(windows) = 3
        /\ windows[1].at = 0
        /\ windows[2].at = CutAt(1) - DefaultOverlap
        /\ windows[3].at = CutAt(2) - DefaultOverlap
        /\ CutAt(3) = Len(dom_content)
        /\ Len(split_result) = 3 - Cardinality(BlankWindows)
        /\ Len(split_result) <= 3
        /\ BlankWindows = {} => Len(split_result) = 3

\* a scenario text cut at a break marker and returned as three chunks
C11_Witness ==
    /\ spc = "done"
    /\ Scenario
    /\ windows[1].len < DefaultMaxLength
    /\ Len(split_result) = 3

(***************************************************************************)
(* Claims about the chunks split_dom_content returns.                      *)
(***************************************************************************)

\* the characters of the k-th window, before stripping
WindowText(k) == Slice(dom_content, windows[k].at, CutAt(k))

\* the whitespace stripped from the front of the k-th window (the last
\* chunk is appended as it is)
Lead(k) ==
    IF Len(chunks[k]) = windows[k].len THEN 0
    ELSE windows[k].len - Len(LStrip(WindowText(k)))

\* the position in the text of the first character of the k-th chunk
ChunkStart(k) == windows[k].at + Lead(k)

\* the text has the characters of c from position p (0-based) on
OccursAt(c, text, p) ==
    /\ p >= 0
    /\ p + Len(c) <= Len(text)
    /\ \A j \in 1..Len(c) : text[p + j] = c[j]

\* the chunks that are kept by the return statement, and their rank there
KeptChunks == {k \in 1..Len(chunks) : Strip(chunks[k]) # <<>>}
Rank(k) == Cardinality({j \in KeptChunks : j <= k})

\* C12: every chunk returned by split_dom_content is a contiguous substring
\* of the input text of length at most max_length, and the chunks are
\* returned in increasing order of their start position in the text (a
\* later chunk never starts before an earlier one).
C12_SubstringsInOrder ==
    spc = "done" =>
        IF windows = <<>>
        THEN \A k \in 1..Len(split_result) :
                /\ Len(split_result[k]) <= max_length
                /\ OccursAt(split_result[k], dom_content, 0)
                /\ k = 1
        ELSE /\ \A k \in 1..Len(chunks) :
                    /\ Len(chunks[k]) <= max_length
                    /\ OccursAt(chunks[k], dom_content, ChunkStart(k))
             /\ \A j, k \in KeptChunks : j < k => ChunkStart(j) <= ChunkStart(k)
             /\ Len(split_result) = Cardinality(KeptChunks)
             /\ \A k \in KeptChunks : split_result[Rank(k)] = chunks[k]

\* C13: for every text and every (max_length, overlap), no chunk of the
\* sequence returned by split_dom_content is empty after trimming whitespace,
\* a whitespace-only text no longer than max_length included.
C13_NoBlankChunk ==
    spc = "done" =>
        \A k \in 1..Len(split_result) : Strip(split_result[k]) # <<>>

(***************************************************************************)
(* Claims about both functions, checked under SpecAll.                     *)
(***************************************************************************)

C15_CallsOnlyForNonBlank ==
    /\ \A k \in CallEvents : events[k].idx \in NonBlankChunks
    /\ \A j, k \in CallEvents : events[j].idx = events[k].idx => j = k
    /\ (Done /\ WellFormed) => Cardinality(CallEvents) = Cardinality(NonBlankChunks)

\* a finished run over blank and non-blank chunks, with two calls made
C15_Witness ==
    /\ Done
    /\ WellFormed
    /\ Len(dom_chunks) = 4
    /\ Cardinality(NonBlankChunks) = 2
    /\ Cardinality(CallEvents) = 2

\* the positions in events of the progress callbacks
ProgressEvents == {k \in 1..Len(events) : events[k].kind = "progress"}

\* the number of callbacks up to position k of events
ProgressUpTo(k) == Cardinality({j \in ProgressEvents : j <= k})

\* C16: when a progress callback is passed, every Extraction Client call for
\* chunk i comes right after progress_callback(i, N); the j-th invocation of
\* the callback is (j, N), so its first argument takes the values 1..N in
\* strictly increasing order, each once, by the end of a well-formed run, and
\* with N = 1 the single invocation is (1, 1).
C16_ProgressProtocol ==
    has_callback =>
        /\ \A k \in CallEvents :
              /\ k > 1
              /\ events[k - 1] = [kind |-> "progress", idx |-> events[k].idx,
                                  arg |-> Len(dom_chunks)]
        /\ \A k \in ProgressEvents :
              /\ events[k].idx = ProgressUpTo(k)
              /\ events[k].arg = Len(dom_chunks)
        /\ (Done /\ WellFormed) => Cardinality(ProgressEvents) = Len(dom_chunks)
        /\ (Done /\ WellFormed /\ Len(dom_chunks) = 1) =>
              SelectSeq(events, LAMBDA e : e.kind = "progress")
                  = <<[kind |-> "progress", idx |-> 1, arg |-> 1]>>

\* a finished run with a callback over four chunks, two of them sent
C16_Witness ==
    /\ Done
    /\ WellFormed
    /\ has_callback
    /\ Len(dom_chunks) = 4
    /\ Cardinality(CallEvents) = 2
    /\ Cardinality(ProgressEvents) = 4

\* the positions in events of the delays between batches
SleepEvents == {k \in 1..Len(events) : events[k].kind = "sleep"}

\* the number of delays before position k of events
SleepsBefore(k) == Cardinality({j \in SleepEvents : j < k})

\* C19: chunks are processed in consecutive batches of 3 in index order:
\* whatever is done for chunk i (callback or call) happens after exactly
\* (i - 1) \div 3 delays, so nothing of batch k+1 starts before the delay
\* that follows batch k; the j-th delay is the fixed one and follows chunk
\* 3j, with chunks still to come; a well-formed run over N chunks ends
\* with exactly ceil(N/3) - 1 delays, none of them after the final batch.
C19_BatchesAndDelays ==
    /\ \A k \in 1..Len(events) :
          IF events[k].kind = "sleep"
          THEN /\ events[k].arg = BatchDelay
               /\ events[k].idx = BatchSize * (SleepsBefore(k) + 1)
               /\ events[k].idx < Len(dom_chunks)
          ELSE SleepsBefore(k) = (events[k].idx - 1) \div BatchSize
    /\ (Done /\ WellFormed) =>
          Cardinality(SleepEvents) = ((Len(dom_chunks) + BatchSize - 1) \div BatchSize) - 1

\* a finished run over seven chunks: three batches, two delays, two calls
C19_Witness ==
    /\ Done
    /\ WellFormed
    /\ Len(dom_chunks) = 7
    /\ Cardinality(SleepEvents) = 2
    /\ Cardinality(CallEvents) = 2

\* the Extraction Client calls made so far, in the order they were made
CallSeq == SelectSeq(events, LAMBDA e : e.kind = "call")

\* what the calls made so far produced and line 116 kept, in call order
CollectedInCallOrder ==
    SelectSeq([n \in 1..Len(CallSeq) |->
                  ParseChunk(dom_chunks[CallSeq[n].idx], CallSeq[n].arg)],
              Collected)

\* the results merged so far: parsed_results, and inside a batch the
\* batch's own results that line 122 is about to add
MergedSoFar ==
    IF pc \in {"chunk", "call"} THEN parsed_results \o batch_results
    ELSE parsed_results

\* C20: Extraction Client calls are issued strictly in chunk-index order,
\* one at a time (a call's result is taken before anything else happens),
\* and the collected results are merged in the order of the chunks that
\* produced them.
C20_CallsAndResultsInOrder ==
    /\ \A j, k \in CallEvents : j < k => events[j].idx < events[k].idx
    /\ MergedSoFar = CollectedInCallOrder

\* a finished run of two batches whose three collected results differ
C20_Witness ==
    /\ Done
    /\ WellFormed
    /\ Len(dom_chunks) = 4
    /\ Len(parsed_results) = 3
    /\ parsed_results[1] # parsed_results[3]
    /\ parsed_results[1] # parsed_results[2]

(***************************************************************************)
(* Claims about parse_with_retry, checked under SpecRetry.                 *)
(***************************************************************************)

RetryDone == rpc = "done"

\* the positions in retry_log of the attempts, and of those that reached the
\* Extraction Client
Attempts == {k \in 1..Len(retry_log) : retry_log[k].kind \in {"call", "skip", "raise"}}
RetryCalls == {k \in 1..Len(retry_log) : retry_log[k].kind = "call"}

\* attempt k got a usable answer: the client replied, with a text that is
\* not blank and does not read as a failure
AttemptUsable(k) ==
    /\ retry_log[k].kind = "call"
    /\ retry_log[k].arg.ok
    /\ Strip(retry_log[k].arg.text) # <<>>
    /\ ~Contains(retry_log[k].arg.text, ErrorProcessingMarker)

\* the texts parse_with_retry returns when it gives up
FailureMarkers == {FailedMultiple, FailedAfter(max_retries, NoStripMessage)}

\* C17: for max_retries >= 1, parse_with_retry makes at most max_retries
\* attempts, hence at most max_retries Extraction Client calls for the
\* chunk; it returns the first usable result right after the attempt that
\* got it, and it returns a failure marker only after exactly max_retries
\* attempts, all failed.
C17_RetryPolicy ==
    max_retries >= 1 =>
        /\ Cardinality(Attempts) <= max_retries
        /\ Cardinality(RetryCalls) <= max_retries
        /\ ~RetryDone => \A k \in Attempts : ~AttemptUsable(k)
        /\ RetryDone =>
              IF retry_result \in FailureMarkers
              THEN /\ Cardinality(Attempts) = max_retries
                   /\ \A k \in Attempts : ~AttemptUsable(k)
              ELSE /\ retry_log # <<>>
                   /\ AttemptUsable(Len(retry_log))
                   /\ retry_result = Strip(retry_log[Len(retry_log)].arg.text)
                   /\ \A k \in Attempts : k < Len(retry_log) => ~AttemptUsable(k)

\* a usable result returned at the third of three attempts, after a
\* provider error
C17_Witness ==
    /\ RetryDone
    /\ max_retries = 3
    /\ Cardinality(RetryCalls) = 3
    /\ ~retry_log[1].arg.ok
    /\ retry_result = <<"A">>

\* C18: whenever attempt k (0-based) fails on a provider error and another
\* attempt follows, a delay of 2^k units lies between the two attempts; no
\* two consecutive attempts happen without a delay between them.
C18_BackoffBetweenAttempts ==
    \A k \in Attempts :
        k < Len(retry_log) =>
            /\ retry_log[k + 1].kind = "sleep"
            /\ (retry_log[k].kind = "call" /\ ~retry_log[k].arg.ok) =>
                   retry_log[k + 1].arg = 2 ^ retry_log[k].idx

(***************************************************************************)
(* Break selection of split_dom_content, checked under SpecSplit.          *)
(***************************************************************************)

\* the windows that were not the last chunk of their run
NonFinalWindows ==
    IF spc \in {"return", "done"} THEN 1..(Len(windows) - 1) ELSE 1..Len(windows)

\* the window the k-th chunk was cut from
FullWindow(k) == Slice(dom_content, windows[k].at, windows[k].at + max_length)

\* the offset in the k-th window of the last occurrence of the m-th marker
LastAt(k, m) == RFind(FullWindow(k), BreakChars[m])

\* the markers (by their rank in the order paragraph break, period-space,
\* period-newline, newline) whose last occurrence in the k-th window lies at
\* least 70% of max_length into it, and those for which it lies beyond 70%
AtLeast70(k) == {m \in 1..Len(BreakChars) : LastAt(k, m) >= 0 /\ 10 * LastAt(k, m) >= 7 * max_length}
Beyond70(k) == {m \in 1..Len(BreakChars) : LastAt(k, m) >= 0 /\ 10 * LastAt(k, m) > 7 * max_length}

\* the smallest element of a non-empty set of ranks
First(S) == CHOOSE m \in S : \A n \in S : m <= n

\* the length of the k-th chunk when the first marker of `qualifying` is
\* taken, the raw window when there is none
LengthBy(k, qualifying) ==
    IF qualifying = {} THEN max_length
    ELSE LastAt(k, First(qualifying)) + Len(BreakChars[First(qualifying)])

---------------------------------------------------------------------------
(* scrape_website (src/scrape.py, lines 127-176).  A URL is a sequence of  *)
(* atoms: an optional scheme, an optional host, an optional path.          *)

Schemes == {"http://", "https://"}
Hosts == {"example.com", "example.org"}
Paths == {"/page"}

\* an argument that is not a string
NoUrl == <<"<None>">>

\* the urls passed in: every combination of scheme, host and path, the
\* empty string among them, and a value that is not a string
Urls ==
    {s \o h \o p : s \in {<<>>} \cup {<<x>> : x \in Schemes},
                   h \in {<<>>} \cup {<<x>> : x \in Hosts},
                   p \in {<<>>} \cup {<<x>> : x \in Paths}}
        \cup {NoUrl}

\* line 143: not url or not isinstance(url, str)
NotANonEmptyString(u) == u = <<>> \/ u = NoUrl

\* line 147: url.startswith(('http://', 'https://'))
StartsWithScheme(u) == u # <<>> /\ u[1] \in Schemes

\* lines 147-148
WithScheme(u) == IF StartsWithScheme(u) THEN u ELSE <<"https://">> \o u

\* urlparse(url).netloc for a url that starts with a scheme: what stands
\* between the scheme and the path
Netloc(u) == IF Len(u) >= 2 /\ u[2] \in Hosts THEN u[2] ELSE ""

\* the two methods of WebScraper, and the one tried when the other failed
Methods == {"selenium", "requests"}
OtherMethod(m) == IF m = "selenium" THEN "requests" ELSE "selenium"

\* a choice that tries requests first whatever use_selenium says
PreferredRequests == "requests"

\* lines 156 and 166: the method tried first
Preferred == IF use_selenium THEN "selenium" ELSE "requests"

\* the pages a fetch can return
Pages == {"<html>1</html>", "<html>2</html>"}

\* what a method can do: return a page, or raise the Exception its handlers
\* build (lines 96-101 for Selenium, lines 123-124 for requests)
FetchResults(m) ==
    {[ok |-> TRUE, value |-> p] : p \in Pages}
        \cup {[ok |-> FALSE, value |-> e] :
                e \in IF m = "selenium"
                      THEN {"Page load timeout", "WebDriver error",
                            "Selenium scraping failed"}
                      ELSE {"Requests scraping failed"}}

FetchReturned(v) == [kind |-> "returned", exc |-> "none", value |-> <<v>>]
FetchRaised(exc, msg) == [kind |-> "raised", exc |-> exc, value |-> msg]

FetchInit ==
    /\ SplitIdle
    /\ ParseIdle
    /\ RetryIdle
    /\ NormIdle
    /\ MemIdle
    /\ url \in Urls
    /\ use_selenium \in BOOLEAN
    /\ fetch_log = <<>>
    /\ fpc = "validate"
    /\ fetch_outcome = [kind |-> "none", exc |-> "none", value |-> <<>>]

\* lines 142-154: the url is checked and given a scheme, the scraper is built
FetchValidate ==
    /\ fpc = "validate"
    /\ IF NotANonEmptyString(url)
       THEN /\ fetch_outcome' = FetchRaised("ValueError", <<"URL must be a non-empty string">>)
            /\ fpc' = "done"
            /\ UNCHANGED url
       ELSE /\ url' = WithScheme(url)
            /\ IF Netloc(url') = ""
               THEN /\ fetch_outcome' = FetchRaised("ValueError", <<"Invalid URL format">>)
                    /\ fpc' = "done"
               ELSE /\ fpc' = "first"
                    /\ UNCHANGED fetch_outcome
    /\ UNCHANGED <<use_selenium, fetch_log>>
    /\ UNCHANGED <<svars, pvars, rvars, nvars, mvars>>

\* lines 156-158 and 166-168: the preferred method is tried
FetchPreferred ==
    /\ fpc = "first"
    /\ \E r \in FetchResults(Preferred) :
          /\ fetch_log' = Append(fetch_log, [method |-> Preferred, url |-> url, res |-> r])
          /\ IF r.ok
             THEN /\ fetch_outcome' = FetchReturned(r.value)
                  /\ fpc' = "done"
             ELSE /\ fpc' = "fallback"
                  /\ UNCHANGED fetch_outcome
    /\ UNCHANGED <<url, use_selenium>>
    /\ UNCHANGED <<svars, pvars, rvars, nvars, mvars>>

\* lines 159-165 and 169-176: the other method is tried after the first failed
FetchFallback ==
    /\ fpc = "fallback"
    /\ LET first == fetch_log[Len(fetch_log)]
           other == OtherMethod(first.method)
       IN  \E r \in FetchResults(other) :
              /\ fetch_log' = Append(fetch_log, [method |-> other, url |-> url, res |-> r])
              /\ fetch_outcome' =
                    IF r.ok THEN FetchReturned(r.value)
                    ELSE FetchRaised("Exception",
                            <<"Both scraping methods failed", first.res.value, r.value>>)
    /\ fpc' = "done"
    /\ UNCHANGED <<url, use_selenium>>
    /\ UNCHANGED <<svars, pvars, rvars, nvars, mvars>>

FetchNext == FetchValidate \/ FetchPreferred \/ FetchFallback

SpecFetch == FetchInit /\ [][FetchNext]_vars

\* C26: the url is validated before any fetch (an empty or host-less url
\* raises ValueError with no fetch at all); the preferred method (Selenium
\* if use_selenium, else requests) is tried first; the other method is tried
\* if and only if the first failed; at most two fetches are made, both for
\* the url with its scheme; the call raises after validation only when both
\* methods failed, and otherwise returns the page of the first method that
\* succeeded.
C26_FetchFallback ==
    /\ Len(fetch_log) <= 2
    /\ \A k \in 1..Len(fetch_log) :
          /\ fetch_log[k].url # <<>>
          /\ fetch_log[k].url[1] \in Schemes
          /\ fetch_log[k].url[2] \in Hosts
    /\ fetch_log # <<>> =>
          fetch_log[1].method = (IF use_selenium THEN "selenium" ELSE "requests")
    /\ Len(fetch_log) = 2 =>
          /\ ~fetch_log[1].res.ok
          /\ fetch_log[2].method # fetch_log[1].method
    /\ fpc = "done" =>
          \/ /\ fetch_log = <<>>
             /\ fetch_outcome.kind = "raised"
             /\ fetch_outcome.exc = "ValueError"
             /\ \/ url \in {<<>>, NoUrl}
                \/ \A k \in 1..Len(url) : url[k] \notin Hosts
          \/ /\ fetch_log # <<>>
             /\ LET last == fetch_log[Len(fetch_log)]
                IN  IF last.res.ok
                    THEN fetch_outcome = [kind |-> "returned", exc |-> "none",
                                          value |-> <<last.res.value>>]
                    ELSE /\ Len(fetch_log) = 2
                         /\ fetch_outcome.kind = "raised"
                         /\ fetch_outcome.exc = "Exception"

\* requests was preferred and failed, Selenium was tried and returned a page
C26_Witness ==
    /\ fpc = "done"
    /\ ~use_selenium
    /\ Len(fetch_log) = 2
    /\ fetch_log[2].method = "selenium"
    /\ fetch_outcome.kind = "returned"

---------------------------------------------------------------------------
(* parse_with_langchain_memory (src/parse.py, lines 247-304).  It has the  *)
(* arguments dom_chunks, parse_description and provider and the loop       *)
(* variable i of the batch path, and its own list all_results.             *)

\* line 298
ErrorInChunk(n, msg) == <<"Error", " in chunk ", ToString(n), ": ">> \o msg

\* line 300
NoMatchShort == <<"No matching information found", ".">>

\* line 295: whether the reply is appended
MemCollected(result) == result # <<>> /\ ~Contains(result, NoMatchFound)

\* the Exception raised in place of any exception (lines 302-303)
MemRaised == [kind |-> "raised", exc |-> "Exception", value |-> <<>>]

MemInit ==
    /\ SplitIdle
    /\ RetryIdle
    /\ NormIdle
    /\ FetchIdle
    /\ entry = "memory"
    /\ provider \in {"groq", "other"}
    /\ has_callback = FALSE
    /\ dom_chunks \in ChunkLists
    /\ parse_description \in {<<>>, <<"q">>}
    /\ parsed_results = <<>>
    /\ batch_results = <<>>
    /\ batch_start = 0
    /\ i = 0
    /\ pc = "construct"
    /\ events = <<>>
    /\ outcome = [kind |-> "none", exc |-> "none", value |-> <<>>]
    /\ all_results = <<>>

\* lines 264-281: AIParser(provider, model) raises ValueError for a provider
\* it does not know; the conversation chain is built
MemConstruct ==
    /\ pc = "construct"
    /\ IF provider \in SupportedProviders
       THEN /\ pc' = "chunk"
            /\ UNCHANGED outcome
       ELSE /\ pc' = "done"
            /\ outcome' = MemRaised
    /\ UNCHANGED <<entry, provider, has_callback, dom_chunks, parse_description,
                   parsed_results, batch_results, batch_start, i, events>>
    /\ UNCHANGED <<svars, rvars, nvars, fvars, mvars>>

\* lines 283-298: one iteration of the loop over enumerate(dom_chunks)
MemChunk ==
    /\ pc = "chunk"
    /\ i < Len(dom_chunks)
    /\ IF IsBlank(dom_chunks[i + 1])
       THEN UNCHANGED <<events, all_results>>
       ELSE \E r \in ClientOutcomes :
               /\ events' = Append(events, [kind |-> "call", idx |-> i + 1, arg |-> r])
               /\ all_results' =
                     IF ~r.ok THEN Append(all_results, ErrorInChunk(i + 1, r.text))
                     ELSE IF MemCollected(r.text) THEN Append(all_results, Strip(r.text))
                     ELSE all_results
    /\ i' = i + 1
    /\ UNCHANGED <<entry, provider, has_callback, dom_chunks, parse_description,
                   parsed_results, batch_results, batch_start, pc, outcome>>
    /\ UNCHANGED <<svars, rvars, nvars, fvars>>

\* line 300: the loop is over
MemReturn ==
    /\ pc = "chunk"
    /\ i >= Len(dom_chunks)
    /\ outcome' = IF all_results # <<>>
                  THEN Returned(JoinWith(all_results, <<"\n", "\n">>))
                  ELSE Returned(NoMatchShort)
    /\ pc' = "done"
    /\ UNCHANGED <<entry, provider, has_callback, dom_chunks, parse_description,
                   parsed_results, batch_results, batch_start, i, events>>
    /\ UNCHANGED <<svars, rvars, nvars, fvars, mvars>>

MemNext == MemConstruct \/ MemChunk \/ MemReturn

SpecMemory == MemInit /\ [][MemNext]_vars

\* C27: in parse_with_langchain_memory blank chunks cause no model call, a
\* failing call on one chunk never prevents the calls for later chunks (every
\* non-blank chunk has been sent when the run ends), the calls are made and
\* their results joined in chunk order, an empty chunk list is rejected as an
\* input error, and the error-marker text of failed chunks does not appear
\* in the returned answer.
C27_MemoryPathGuarantees ==
    /\ \A k \in CallEvents : events[k].idx \in NonBlankChunks
    /\ \A j, k \in CallEvents : j < k => events[j].idx < events[k].idx
    /\ (Done /\ provider \in SupportedProviders) =>
          /\ {events[k].idx : k \in CallEvents} = NonBlankChunks
          /\ dom_chunks = <<>> => outcome.kind = "raised"
          /\ outcome.kind = "returned" => ~Contains(outcome.value, ErrorToken)

---------------------------------------------------------------------------
(* extract_body_content and clean_body_content (src/scrape.py, lines       *)
(* 179-255).  A markup string is given by its syntax tree: a sequence of   *)
(* nodes [tag, text, kids], where a text node has tag "#text", a comment   *)
(* has tag "#comment", and text is a sequence of atoms as written in the   *)
(* markup: words, whitespace characters and character references.         *)

\* the number of characters of an atom
AtomLen(a) ==
    CASE a \in {"abc", "xyz"} -> 3
      [] a = "de" -> 2
      [] a = "&amp;" -> 5
      [] a = "&amp;amp;" -> 9
      [] OTHER -> 1

\* len(s)
RECURSIVE CharLen(_)
CharLen(s) == IF s = <<>> THEN 0 ELSE AtomLen(Head(s)) + CharLen(Tail(s))

\* the parser replaces a character reference by what it stands for
DecodeAtom(a) ==
    CASE a = "&amp;amp;" -> "&amp;"
      [] a = "&amp;" -> "&"
      [] OTHER -> a

\* str() writes an ampersand of a text as a character reference
EncodeAtom(a) ==
    CASE a = "&amp;" -> "&amp;amp;"
      [] a = "&" -> "&amp;"
      [] OTHER -> a

TextNode(t) == [tag |-> "#text", text |-> t, kids |-> <<>>]
CommentNode(t) == [tag |-> "#comment", text |-> t, kids |-> <<>>]
Element(tag, kids) == [tag |-> tag, text |-> <<>>, kids |-> kids]

\* BeautifulSoup(markup, 'html.parser') for markup that it accepts: the tree
\* with the character references of its text nodes replaced; comments are
\* kept as written
RECURSIVE ParseTree(_)
ParseTree(ns) ==
    [k \in 1..Len(ns) |->
        IF ns[k].tag = "#text"
        THEN [ns[k] EXCEPT !.text = [j \in 1..Len(ns[k].text) |-> DecodeAtom(ns[k].text[j])]]
        ELSE [ns[k] EXCEPT !.kids = ParseTree(ns[k].kids)]]

\* str(soup): the markup of a tree
RECURSIVE Serialize(_)
Serialize(ns) ==
    [k \in 1..Len(ns) |->
        IF ns[k].tag = "#text"
        THEN [ns[k] EXCEPT !.text = [j \in 1..Len(ns[k].text) |-> EncodeAtom(ns[k].text[j])]]
        ELSE [ns[k] EXCEPT !.kids = Serialize(ns[k].kids)]]

\* the markup of a plain text: one text node (none for the empty string)
ParseText(s) == IF s = <<>> THEN <<>> ELSE <<TextNode(s)>>

\* the tags removed by clean_body_content (lines 221-222)
RemovedTags == {"script", "style", "nav", "header", "footer", "aside",
                "noscript", "iframe", "form"}

\* config.ELEMENTS_TO_REMOVE
ELEMENTS_TO_REMOVE == RemovedTags \cup {"button"}

\* lines 221-223: every element with one of the tags is taken out
RECURSIVE RemoveTags(_, _)
RemoveTags(ns, tags) ==
    IF ns = <<>> THEN <<>>
    ELSE IF Head(ns).tag \in tags THEN RemoveTags(Tail(ns), tags)
    ELSE <<[Head(ns) EXCEPT !.kids = RemoveTags(Head(ns).kids, tags)]>>
            \o RemoveTags(Tail(ns), tags)

\* lines 226-229: every comment is taken out
RemoveComments(ns) == RemoveTags(ns, {"#comment"})

\* the strings of the tree, in document order
RECURSIVE Strings(_)
Strings(ns) ==
    IF ns = <<>> THEN <<>>
    ELSE (IF Head(ns).tag = "#text" THEN <<Head(ns).text>>
          ELSE IF Head(ns).tag = "#comment" THEN <<>>
          ELSE Strings(Head(ns).kids))
         \o Strings(Tail(ns))

\* the strings stripped, the empty ones left out
RECURSIVE StrippedNonEmpty(_)
StrippedNonEmpty(ss) ==
    IF ss = <<>> THEN <<>>
    ELSE IF Strip(Head(ss)) = <<>> THEN StrippedNonEmpty(Tail(ss))
    ELSE <<Strip(Head(ss))>> \o StrippedNonEmpty(Tail(ss))

\* soup.get_text(separator="\n", strip=True)
GetText(ns) == JoinWith(StrippedNonEmpty(Strings(ns)), <<"\n">>)

\* soup.get_text()
GetTextRaw(ns) == JoinWith(Strings(ns), <<>>)

\* text.splitlines(): as split('\n'), without a last empty piece
Splitlines(s) ==
    LET parts == SplitLines(s)
    IN  IF parts[Len(parts)] = <<>> THEN SubSeq(parts, 1, Len(parts) - 1) ELSE parts

\* the length a line has to exceed
MinLineLength == 2

\* a filter that keeps every non-empty line
KeepsLineNonEmpty(line) == line # <<>>

\* line 238
KeepsLine(line) == line # <<>> /\ CharLen(line) > MinLineLength

\* lines 235-239
RECURSIVE KeepLines(_)
KeepLines(ls) ==
    IF ls = <<>> THEN <<>>
    ELSE LET line == Strip(Head(ls))
         IN  IF KeepsLine(line) THEN <<line>> \o KeepLines(Tail(ls))
             ELSE KeepLines(Tail(ls))

\* lines 242-247, from prev_line on
RECURSIVE DedupeFrom(_, _)
DedupeFrom(ls, prev_line) ==
    IF ls = <<>> THEN <<>>
    ELSE IF Head(ls) # prev_line THEN <<Head(ls)>> \o DedupeFrom(Tail(ls), Head(ls))
    ELSE DedupeFrom(Tail(ls), prev_line)

Dedupe(ls) == DedupeFrom(ls, <<>>)

\* a clean-up that collapses duplicates before it drops the short lines
PostProcessDedupeFirst(s) == KeepLines(Dedupe(Splitlines(s)))

\* lines 234-247: the short-line filter, then the collapse of duplicates
PostProcess(s) == Dedupe(KeepLines(Splitlines(s)))

\* lines 219-249 for markup that parses
CleanTree(ns) ==
    JoinWith(PostProcess(GetText(RemoveComments(RemoveTags(ParseTree(ns), RemovedTags)))),
             <<"\n">>)

\* the words of the text nodes and comments of the trees
Words == {"abc", "xyz"}

\* the plain texts passed in: up to MaxCleanLen atoms of words, a short word
\* and whitespace, and up to MaxRefLen atoms with ampersands and character
\* references
CleanTexts ==
    SeqsOver(Words \cup {"de", " ", "\n"}, 0, MaxCleanLen)
        \cup SeqsOver({"abc", "&", "&amp;", "&amp;amp;", "\n"}, 1, MaxRefLen)

Leaves == {TextNode(<<w>>) : w \in Words} \cup {CommentNode(<<w>>) : w \in Words}

\* elements nested in another element
InnerElements ==
    {Element(t, <<TextNode(<<w>>)>>) : t \in {"p", "script", "button"}, w \in Words}

\* the tags of the elements at the top of a tree
TopTags == ELEMENTS_TO_REMOVE \cup {"p", "body"}

\* the parser reads what is inside script and style as one string
RawTextTags == {"script", "style"}

TopElements ==
    {Element(t, <<k>>) : t \in TopTags \ RawTextTags, k \in Leaves \cup InnerElements}
        \cup {Element(t, <<j, k>>) : t \in TopTags \ RawTextTags, j \in Leaves, k \in Leaves}
        \cup {Element(t, <<TextNode(<<w>>)>>) : t \in RawTextTags, w \in Words}

\* the trees passed in: an element or a leaf, alone or next to a text node
Trees ==
    {<<n>> : n \in TopElements \cup Leaves}
        \cup {<<TextNode(<<w>>), e>> : w \in Words, e \in TopElements}
        \cup {<<e, TextNode(<<w>>)>> : w \in Words, e \in TopElements}

\* a string argument: its markup, and whether the parser accepts it
Markup(ns) == [parses |-> TRUE, nodes |-> ns]

\* an argument for which BeautifulSoup raises
Rejected == [parses |-> FALSE, nodes |-> <<>>]

EmptyString == Markup(<<>>)

Documents == {Markup(ParseText(t)) : t \in CleanTexts} \cup {Markup(ns) : ns \in Trees}
                \cup {Rejected}

NormReturned(v) == [kind |-> "returned", value |-> v]
NormRaised == [kind |-> "raised", value |-> <<>>]

\* soup.body: the first element named body (looked for at the top of the tree)
BodyOf(ns) ==
    LET bodies == {k \in 1..Len(ns) : ns[k].tag = "body"}
    IN  IF bodies = {} THEN <<>>
        ELSE <<ns[CHOOSE k \in bodies : \A j \in bodies : k <= j]>>

\* extract_body_content, lines 189-202
ExtractBodyContent(html) ==
    IF html = EmptyString THEN EmptyString
    ELSE IF ~html.parses THEN html
    ELSE IF BodyOf(ParseTree(html.nodes)) # <<>>
         THEN Markup(Serialize(BodyOf(ParseTree(html.nodes))))
         ELSE Markup(Serialize(ParseTree(html.nodes)))

\* the functions are called one after the other (main.py, lines 77-78), or
\* clean_body_content is called on its own
NormInit ==
    /\ SplitIdle
    /\ ParseIdle
    /\ RetryIdle
    /\ FetchIdle
    /\ MemIdle
    /\ \E d \in Documents :
          \/ /\ html_content = d
             /\ body_content = EmptyString
             /\ npc = "extract"
          \/ /\ html_content = EmptyString
             /\ body_content = d
             /\ npc = "clean"
    /\ soup = <<>>
    /\ clean_text = <<>>
    /\ clean_lines = <<>>
    /\ norm_outcome = [kind |-> "none", value |-> <<>>]

\* extract_body_content, then the call of clean_body_content on its result
ExtractBody ==
    /\ npc = "extract"
    /\ body_content' = ExtractBodyContent(html_content)
    /\ npc' = "clean"
    /\ UNCHANGED <<html_content, soup, clean_text, clean_lines, norm_outcome>>
    /\ UNCHANGED <<svars, pvars, rvars, fvars, mvars>>

\* lines 215-219: the empty string is returned as it is; the markup is
\* parsed, and the handler of line 251 is entered if that raises
CleanEntry ==
    /\ npc = "clean"
    /\ IF body_content = EmptyString
       THEN /\ norm_outcome' = NormReturned(<<>>)
            /\ npc' = "done"
            /\ UNCHANGED soup
       ELSE IF body_content.parses
       THEN /\ soup' = ParseTree(body_content.nodes)
            /\ npc' = "remove"
            /\ UNCHANGED norm_outcome
       ELSE /\ npc' = "except"
            /\ UNCHANGED <<soup, norm_outcome>>
    /\ UNCHANGED <<html_content, body_content, clean_text, clean_lines>>
    /\ UNCHANGED <<svars, pvars, rvars, fvars, mvars>>

\* lines 221-229
CleanRemove ==
    /\ npc = "remove"
    /\ soup' = RemoveComments(RemoveTags(soup, RemovedTags))
    /\ npc' = "text"
    /\ UNCHANGED <<html_content, body_content, clean_text, clean_lines, norm_outcome>>
    /\ UNCHANGED <<svars, pvars, rvars, fvars, mvars>>

\* lines 232-249
CleanText ==
    /\ npc = "text"
    /\ clean_text' = GetText(soup)
    /\ clean_lines' = KeepLines(Splitlines(clean_text'))
    /\ norm_outcome' = NormReturned(JoinWith(PostProcess(clean_text'), <<"\n">>))
    /\ npc' = "done"
    /\ UNCHANGED <<html_content, body_content, soup>>
    /\ UNCHANGED <<svars, pvars, rvars, fvars, mvars>>

\* lines 251-255: the handler parses the same argument again, outside any
\* try block
CleanFallback ==
    /\ npc = "except"
    /\ norm_outcome' = IF body_content.parses
                       THEN NormReturned(GetTextRaw(ParseTree(body_content.nodes)))
                       ELSE NormRaised
    /\ npc' = "done"
    /\ UNCHANGED <<html_content, body_content, soup, clean_text, clean_lines>>
    /\ UNCHANGED <<svars, pvars, rvars, fvars, mvars>>

NormNext == ExtractBody \/ CleanEntry \/ CleanRemove \/ CleanText \/ CleanFallback

SpecNormalize == NormInit /\ [][NormNext]_vars

\* the atoms of a string
Atoms(s) == {s[p] : p \in 1..Len(s)}

\* the words of the strings of a tree: of every text node and comment
RECURSIVE AllWords(_)
AllWords(ns) ==
    IF ns = <<>> THEN {}
    ELSE (Atoms(Head(ns).text) \cap Words) \cup AllWords(Head(ns).kids) \cup AllWords(Tail(ns))

\* the words of the text nodes that lie in no element with one of the tags
RECURSIVE WordsOutside(_, _)
WordsOutside(ns, tags) ==
    IF ns = <<>> THEN {}
    ELSE (IF Head(ns).tag = "#text" THEN Atoms(Head(ns).text) \cap Words
          ELSE IF Head(ns).tag \in tags \cup {"#comment"} THEN {}
          ELSE WordsOutside(Head(ns).kids, tags))
         \cup WordsOutside(Tail(ns), tags)

\* clean_body_content went down its normal path and returned
CleanedNormally ==
    /\ npc = "done"
    /\ body_content.parses
    /\ body_content # EmptyString
    /\ norm_outcome.kind = "returned"

\* C21: a word that occurs only inside elements of the configured removal set
\* (script, style, nav, header, footer, aside, noscript, iframe, form, button)
\* or inside comments is not in the output of clean_body_content, and a word
\* outside every such element is still in the text after the removal step.
C21_RemovalSet ==
    CleanedNormally =>
        LET tree == ParseTree(body_content.nodes)
            outside == WordsOutside(tree, ELEMENTS_TO_REMOVE)
        IN  /\ \A w \in AllWords(tree) \ outside : w \notin Atoms(norm_outcome.value)
            /\ \A w \in outside : w \in Atoms(clean_text)

\* the lines of the returned text
OutLines == Splitlines(norm_outcome.value)

\* the positions of the lines that differ from the line before them
Kept(ls) == {p \in 1..Len(ls) : p = 1 \/ ls[p] # ls[p - 1]}

\* the p-th smallest element of a set of positions
RECURSIVE Nth(_, _)
Nth(S, p) ==
    LET m == CHOOSE q \in S : \A r \in S : q <= r
    IN  IF p = 1 THEN m ELSE Nth(S \ {m}, p - 1)

\* C22: in every output of the normal path of clean_body_content each line is
\* trimmed and longer than 2 characters, no two consecutive lines are equal,
\* and the output is the filtered lines with exactly the lines equal to their
\* predecessor dropped, so that equal lines separated by another line are
\* both kept.
C22_LineInvariants ==
    CleanedNormally =>
        /\ \A p \in 1..Len(OutLines) :
              /\ Strip(OutLines[p]) = OutLines[p]
              /\ CharLen(OutLines[p]) > 2
              /\ p > 1 => OutLines[p] # OutLines[p - 1]
        /\ Len(OutLines) = Cardinality(Kept(clean_lines))
        /\ \A p \in 1..Len(OutLines) : OutLines[p] = clean_lines[Nth(Kept(clean_lines), p)]

\* an output with two equal lines around a different one
C22_Witness ==
    /\ CleanedNormally
    /\ Len(OutLines) = 3
    /\ OutLines[1] = OutLines[3]
    /\ OutLines[1] # OutLines[2]

\* no atom of the text is a character reference or an ampersand
MarkupFree(s) == Atoms(s) \cap {"&", "&amp;", "&amp;amp;"} = {}

\* clean_body_content was given a text without markup
CleanedPlainText ==
    /\ CleanedNormally
    /\ Len(body_content.nodes) = 1
    /\ body_content.nodes[1].tag = "#text"
    /\ MarkupFree(body_content.nodes[1].text)

\* C23: for a text x without markup, clean_body_content(clean_body_content(x))
\* equals clean_body_content(x).
C23_Idempotent ==
    CleanedPlainText => CleanTree(ParseText(norm_outcome.value)) = norm_outcome.value

\* a text whose short middle line is dropped between two equal lines
C23_Witness ==
    /\ CleanedPlainText
    /\ body_content.nodes = ParseText(<<"abc", "\n", "de", "\n", "abc">>)
    /\ norm_outcome.value = <<"abc">>

\* C24: extract_body_content and clean_body_content return a string for every
\* input, and no exception escapes.
C24_NeverRaises ==
    npc = "done" => norm_outcome.kind = "returned"

=============================================================================
